---- MODULE Spec2Model ----
(***************************************************************************)
(* The retrieval path of the FMCG recommender (src/app.py): the one-time   *)
(* artifact load (load_data and the try/except around it), the identity    *)
(* mappings, the dot-product ranking with its n + 100 candidate window,    *)
(* the purchase-history filter and the history query.                      *)
(*                                                                         *)
(* Identifiers are Python values of two kinds, int and str; a str is a     *)
(* sequence of characters; None is the value of a select box without       *)
(* options.  Row indices are 0-based as in the source; TLA+ sequences are  *)
(* 1-based, so row r of a table t is t[r + 1].                             *)
(* Embedding coordinates are integers (exact in float64).                  *)
(***************************************************************************)
EXTENDS Integers, Sequences, FiniteSets, TLC

\* Bounds of the explored inputs.
MaxUsers == 2
MaxItems == 3
MaxRows == 3
MaxExtra == 1

\* The overfetch slack of the candidate window, n + 100.
Slack == 100

VARIABLES
    disk,                   \* the artifacts under app_data/ (static)
    pc,                     \* position of the script run
    error,                  \* the artifact whose load raised, or "none"
    loaded,                 \* load_data returned and line 80 bound the globals
    cache,                  \* st.cache_data's entry for load_data
    user_vecs, item_vecs, user_map, item_inv_map, order_cust,
    selected_user_id, n_recs,
    user_history_mids, recs_mids,
    top_indices_candidates  \* the candidate window scanned by the last query

vars == <<disk, pc, error, loaded, cache, user_vecs, item_vecs, user_map,
          item_inv_map, order_cust, selected_user_id, n_recs,
          user_history_mids, recs_mids, top_indices_candidates>>

tables == <<user_vecs, item_vecs, user_map, item_inv_map, order_cust>>
query == <<selected_user_id, n_recs, user_history_mids, recs_mids,
           top_indices_candidates>>

(***************************************************************************)
(* Python values and str()                                                 *)
(***************************************************************************)
IntId(n) == [kind |-> "int", num |-> n, text |-> <<>>]
StrId(s) == [kind |-> "str", num |-> 0, text |-> s]
None == [kind |-> "none", num |-> 0, text |-> <<>>]

Digit(d) ==
    CASE d = 0 -> "0" [] d = 1 -> "1" [] d = 2 -> "2" [] d = 3 -> "3"
      [] d = 4 -> "4" [] d = 5 -> "5" [] d = 6 -> "6" [] d = 7 -> "7"
      [] d = 8 -> "8" [] d = 9 -> "9"

RECURSIVE Decimal(_)
Decimal(n) ==
    IF n < 0 THEN <<"-">> \o Decimal(-n)
    ELSE IF n < 10 THEN <<Digit(n)>>
    ELSE Decimal(n \div 10) \o <<Digit(n % 10)>>

\* str(x): the decimal digits of an int, "None" for None, a str unchanged.
str(x) ==
    IF x.kind = "int" THEN Decimal(x.num)
    ELSE IF x.kind = "none" THEN <<"N", "o", "n", "e">>
    ELSE x.text

Min(a, b) == IF a <= b THEN a ELSE b

(***************************************************************************)
(* load_data: the identity mappings                                        *)
(***************************************************************************)
EmptyDict == [k \in {} |-> 0]

\* {str(uid): i for i, uid in enumerate(ids)} after the first k insertions,
\* first occurrence kept (not the code's behaviour).
RECURSIVE UserMapFirstWins(_, _)
UserMapFirstWins(ids, k) ==
    IF k = 0 THEN EmptyDict
    ELSE LET m == UserMapFirstWins(ids, k - 1)
             key == str(ids[k])
         IN  IF key \in DOMAIN m THEN m
             ELSE [x \in (DOMAIN m) \cup {key} |-> IF x = key THEN k - 1 ELSE m[x]]

\* {str(uid): i for i, uid in enumerate(ids)} after the first k insertions:
\* each insertion overwrites the entry of an equal key.
RECURSIVE BuildUserMap(_, _)
BuildUserMap(ids, k) ==
    IF k = 0 THEN EmptyDict
    ELSE LET m == BuildUserMap(ids, k - 1)
             key == str(ids[k])
         IN  [x \in (DOMAIN m) \cup {key} |-> IF x = key THEN k - 1 ELSE m[x]]

\* {i: str(mid) for i, mid in enumerate(ids)}
BuildItemInvMap(ids) == [i \in 0..(Len(ids) - 1) |-> str(ids[i + 1])]

(***************************************************************************)
(* The artifacts                                                           *)
(***************************************************************************)
Artifacts == {"user_embeddings", "item_embeddings", "twotower_maps",
              "user_history", "product_metadata"}

Row(c, m) == [customer_id |-> c, mid |-> m]

RawIds == {IntId(1), StrId(<<"1">>), StrId(<<"2">>)}

\* The counts the second select box offers.
n_recs_options == {5, 10, 15, 20, 25}
SmallestCount == CHOOSE n \in n_recs_options : \A m \in n_recs_options : n <= m
UserVecChoices == {<<1, 0>>, <<1, 1>>}
ItemVecChoices == {<<1, 0>>, <<0, 1>>}

SeqsUpTo(S, n) == UNION {[1..k -> S] : k \in 0..n}

Table(ids, vecs) == [ids |-> ids, vecs |-> vecs]
TablesUpTo(S, V, n) ==
    UNION {{Table(ids, vecs) : ids \in [1..k -> S], vecs \in [1..k -> V]} : k \in 0..n}

BaseUsers == Table(<<IntId(1), StrId(<<"2">>)>>, <<<<1, 0>>, <<1, 1>>>>)
BaseItems == Table(<<IntId(1), StrId(<<"1">>), StrId(<<"2">>)>>,
                   <<<<1, 0>>, <<1, 0>>, <<0, 1>>>>)
BaseHistory == <<Row(IntId(1), StrId(<<"2">>)), Row(StrId(<<"2">>), IntId(1))>>
BaseHistories ==
    {<<>>, BaseHistory,
     <<Row(StrId(<<"1">>), IntId(1)), Row(IntId(1), StrId(<<"1">>)),
       Row(StrId(<<"2">>), StrId(<<"2">>))>>}

Disk(users, items, history, present) ==
    [present |-> present,
     user_ids |-> users.ids, user_vecs |-> users.vecs,
     item_ids |-> items.ids, item_vecs |-> items.vecs,
     history |-> history]

\* Every subset of the artifacts present, over one data set.
DisksArtifacts ==
    {Disk(BaseUsers, BaseItems, BaseHistory, p) : p \in SUBSET Artifacts}

\* Every identifier list of the customers.
DisksUsers ==
    {Disk(u, BaseItems, BaseHistory, Artifacts) :
        u \in TablesUpTo(RawIds, UserVecChoices, MaxUsers)}

\* Every purchase log.
DisksHistory ==
    {Disk(BaseUsers, BaseItems, h, Artifacts) :
        h \in SeqsUpTo({Row(c, m) : c \in RawIds, m \in RawIds}, MaxRows)}

\* Every catalog.
DisksCatalog ==
    {Disk(BaseUsers, i, h, Artifacts) :
        i \in TablesUpTo(RawIds, ItemVecChoices, MaxItems), h \in BaseHistories}

\* Catalogs as large as the smallest candidate window and larger: L rows
\* with distinct scores (ascending or descending in the row index), of
\* which customer 1 bought the k best-scored; the log writes the item ids as
\* str, the catalog as int.
LargeItems(L, asc) ==
    Table([i \in 1..L |-> IntId(i)],
          [i \in 1..L |-> <<IF asc THEN i ELSE L + 1 - i, 0>>])
LargeHistory(L, asc, k) ==
    [j \in 1..k |-> Row(IntId(1), StrId(Decimal(IF asc THEN L + 1 - j ELSE j)))]
DisksLarge ==
    {Disk(BaseUsers, LargeItems(L, asc), LargeHistory(L, asc, k), Artifacts) :
        L \in (Slack + SmallestCount)..(Slack + SmallestCount + MaxExtra),
        asc \in BOOLEAN,
        k \in (Slack - MaxExtra)..(Slack + MaxExtra)}

\* Customer "1024" has purchased A1 and A2; the scores rank the catalog
\* A2, A1, A3, A4, A5, A6, A7, A8.
ExampleCustomer == StrId(<<"1", "0", "2", "4">>)
ExampleItem(i) == StrId(<<"A", Digit(i)>>)
DisksExample ==
    {Disk(Table(<<ExampleCustomer>>, <<<<1, 0>>>>),
          Table([i \in 1..8 |-> ExampleItem(i)],
                <<<<7, 0>>, <<8, 0>>, <<6, 0>>, <<5, 0>>, <<4, 0>>,
                  <<3, 0>>, <<2, 0>>, <<1, 0>>>>),
          <<Row(ExampleCustomer, ExampleItem(1)), Row(ExampleCustomer, ExampleItem(2))>>,
          Artifacts)}

Inputs == DisksArtifacts \cup DisksUsers \cup DisksHistory \cup DisksCatalog
            \cup {d \in DisksLarge : Len(d.history) <= Len(d.item_ids)}
            \cup DisksExample

NoId == IntId(0)

Init ==
    /\ disk \in Inputs
    /\ pc = "start"
    /\ error = "none"
    /\ loaded = FALSE
    /\ cache = <<>>
    /\ user_vecs = <<>> /\ item_vecs = <<>>
    /\ user_map = EmptyDict /\ item_inv_map = <<>>
    /\ order_cust = <<>>
    /\ selected_user_id = NoId /\ n_recs = 0
    /\ user_history_mids = <<>> /\ recs_mids = <<>>
    /\ top_indices_candidates = <<>>

(***************************************************************************)
(* The script run: load_data under st.cache_data, try/except, st.stop      *)
(***************************************************************************)
\* Where the run continues when load_data returned.
AfterLoad == "page"

\* except: st.error(...) and no st.stop(): the script runs on (not the
\* code's behaviour).
AfterLoadFailureNoStop == "page"

\* except Exception: st.error(...); st.stop()
AfterLoadFailure == "stopped"

\* An artifact that cannot be opened raises inside load_data.
Raise(a) ==
    /\ a \notin disk.present
    /\ pc' = AfterLoadFailure
    /\ error' = a
    /\ UNCHANGED <<disk, loaded, cache, tables, query>>

Read(a, next) ==
    /\ a \in disk.present
    /\ pc' = next
    /\ UNCHANGED <<disk, error, loaded, cache, tables, query>>

\* The value load_data returns.
load_data ==
    [user_vecs |-> disk.user_vecs,
     item_vecs |-> disk.item_vecs,
     user_map |-> BuildUserMap(disk.user_ids, Len(disk.user_ids)),
     item_inv_map |-> BuildItemInvMap(disk.item_ids),
     order_cust |-> disk.history]

Bind(t) ==
    /\ user_vecs' = t.user_vecs
    /\ item_vecs' = t.item_vecs
    /\ user_map' = t.user_map
    /\ item_inv_map' = t.item_inv_map
    /\ order_cust' = t.order_cust
    /\ loaded' = TRUE

\* A run whose load_data call is answered from the cache.
LoadCached ==
    /\ pc = "start"
    /\ cache # <<>>
    /\ Bind(cache[1])
    /\ pc' = AfterLoad
    /\ UNCHANGED <<disk, error, cache, query>>

LoadUserEmbeddings ==
    /\ pc = "start"
    /\ cache = <<>>
    /\ \/ Read("user_embeddings", "item_embeddings")
       \/ Raise("user_embeddings")

LoadItemEmbeddings ==
    /\ pc = "item_embeddings"
    /\ \/ Read("item_embeddings", "twotower_maps")
       \/ Raise("item_embeddings")

LoadMaps ==
    /\ pc = "twotower_maps"
    /\ \/ Read("twotower_maps", "user_history")
       \/ Raise("twotower_maps")

LoadHistory ==
    /\ pc = "user_history"
    /\ \/ Read("user_history", "product_metadata")
       \/ Raise("user_history")

LoadProducts ==
    /\ pc = "product_metadata"
    /\ \/ /\ "product_metadata" \in disk.present
          /\ Bind(load_data)
          /\ cache' = <<load_data>>
          /\ pc' = AfterLoad
          /\ UNCHANGED <<disk, error, query>>
       \/ Raise("product_metadata")

(***************************************************************************)
(* get_twotower_recommendations                                            *)
(***************************************************************************)
RECURSIVE Dot(_, _, _)
Dot(a, b, d) == IF d = 0 THEN 0 ELSE Dot(a, b, d - 1) + a[d] * b[d]

\* np.dot(item_vecs, target_user_vec): one score per catalog row.
Scores(customer_id) ==
    LET target_user_vec == user_vecs[user_map[str(customer_id)] + 1]
    IN  [i \in 1..Len(item_vecs) |->
            Dot(item_vecs[i], target_user_vec, Len(target_user_vec))]

\* The assignments of rows to the positions in `todo`, each position p
\* taking a row of cand[p] that no other position takes.
RECURSIVE Arrange(_, _, _)
Arrange(cand, todo, used) ==
    IF todo = {} THEN {EmptyDict}
    ELSE LET p == CHOOSE x \in todo : \A y \in todo : x <= y
         IN  UNION {{[x \in (DOMAIN f) \cup {p} |-> IF x = p THEN r ELSE f[x]] :
                        f \in Arrange(cand, todo \ {p}, used \cup {r})} :
                    r \in cand[p] \ used}

\* For each row, the number of rows of smaller score.
BelowCounts(scores) ==
    [r \in 0..(Len(scores) - 1) |->
        Cardinality({q \in 1..Len(scores) : scores[q] < scores[r + 1]})]

\* For each row, the number of rows of score not larger.
AtMostCounts(scores) ==
    [r \in 0..(Len(scores) - 1) |->
        Cardinality({q \in 1..Len(scores) : scores[q] <= scores[r + 1]})]

\* The rows an ascending sort may put at each position p: those with fewer
\* than p smaller scores and at least p scores not larger.
Candidates(below, atmost) ==
    [p \in 1..Cardinality(DOMAIN below) |->
        {r \in DOMAIN below : below[r] < p /\ p <= atmost[r]}]

Tied(cand) == {p \in DOMAIN cand : Cardinality(cand[p]) > 1}

Orders(cand, tied) ==
    {[p \in DOMAIN cand |-> IF p \in tied THEN f[p] ELSE CHOOSE r \in cand[p] : TRUE] :
        f \in Arrange(cand, tied, {})}

SortedOrders(cand) == Orders(cand, Tied(cand))

\* np.argsort(scores) with the default kind (quicksort, not stable): a
\* permutation of the rows that puts the scores in ascending order; the
\* order among rows of equal score is not determined.
argsort(scores) ==
    SortedOrders(Candidates(BelowCounts(scores), AtMostCounts(scores)))

Reverse(s) == [i \in 1..Len(s) |-> s[Len(s) + 1 - i]]

\* s[-k:] for k >= 1
LastK(s, k) == SubSeq(s, Len(s) - Min(k, Len(s)) + 1, Len(s))

\* A window of n + 50, as the comment above line 312 has it (not the code's
\* behaviour).
TopCandidatesSlack50(order, n) == Reverse(LastK(order, n + 50))

\* The window in ascending order of score, the [::-1] dropped (not the
\* code's behaviour).
TopCandidatesNotReversed(order, n) == LastK(order, n + Slack)

\* np.argsort(scores)[-(n + 100):][::-1]
TopCandidates(order, n) == Reverse(LastK(order, n + Slack))

\* One value met by Series.unique(): kept when no equal value was met before.
UniqueStep(u, x) ==
    IF \E j \in 1..Len(u) : u[j] = x THEN u ELSE Append(u, x)

\* Series.unique() over s[lo..hi], continuing from the values u kept so
\* far: the values in order of first appearance, compared as Python
\* objects (an int and a str are never equal).  The range is split in
\* halves, the first half evaluated before the second, to keep the
\* evaluation shallow; the values are met in order.
RECURSIVE Unique(_, _, _, _)
Unique(s, lo, hi, u) ==
    IF lo > hi THEN u
    ELSE IF lo = hi THEN UniqueStep(u, s[lo])
    ELSE CHOOSE r \in {Unique(s, (lo + hi) \div 2 + 1, hi, half) :
                          half \in {Unique(s, lo, (lo + hi) \div 2, u)}} : TRUE

Mids(rows) == [j \in 1..Len(rows) |-> rows[j].mid]

\* order_cust[order_cust['customer_id'].astype(str) == str(customer_id)]['mid'].unique().tolist()
UserHistoryMids(customer_id) ==
    LET rows == SelectSeq(order_cust, LAMBDA r : str(r.customer_id) = str(customer_id))
    IN  Unique(Mids(rows), 1, Len(rows), <<>>)

\* The purchase set taken from the rows whose customer id equals the
\* queried one as a Python object, without astype(str) (not the code's
\* behaviour).
already_bought_set_raw_match(customer_id) ==
    LET rows == SelectSeq(order_cust, LAMBDA r : r.customer_id = customer_id)
    IN  {str(rows[j].mid) : j \in 1..Len(rows)}

\* set([str(x) for x in already_bought])
already_bought_set(customer_id) ==
    LET already_bought == UserHistoryMids(customer_id)
    IN  {str(already_bought[j]) : j \in 1..Len(already_bought)}

\* The loop state before the first candidate.
LoopStart == [final_recs |-> <<>>, break |-> FALSE]

\* One iteration with the length test "> n" (not the code's behaviour).
LoopStepOffByOne(st, idx, bought, n) ==
    IF st.break THEN st
    ELSE LET mid == item_inv_map[idx]
             recs == IF mid \notin bought THEN Append(st.final_recs, mid)
                     ELSE st.final_recs
         IN  [final_recs |-> recs, break |-> Len(recs) > n]

\* One iteration of "for idx in top_indices_candidates": append mid when it
\* is not bought, then break when len(final_recs) >= n; after the break no
\* iteration runs.
LoopStep(st, idx, bought, n) ==
    IF st.break THEN st
    ELSE LET mid == item_inv_map[idx]
             recs == IF mid \notin bought THEN Append(st.final_recs, mid)
                     ELSE st.final_recs
         IN  [final_recs |-> recs, break |-> Len(recs) >= n]

\* The iterations over cands[lo..hi], in order, from the loop state st (the
\* range is split in halves, the first half evaluated before the second, to
\* keep the evaluation shallow).
RECURSIVE FilterLoop(_, _, _, _, _, _)
FilterLoop(cands, lo, hi, bought, n, st) ==
    IF lo > hi THEN st
    ELSE IF lo = hi THEN LoopStep(st, cands[lo], bought, n)
    ELSE CHOOSE r \in {FilterLoop(cands, (lo + hi) \div 2 + 1, hi, bought, n, half) :
                          half \in {FilterLoop(cands, lo, (lo + hi) \div 2, bought, n, st)}} :
                TRUE

Known(customer_id) == str(customer_id) \in DOMAIN user_map

\* available_users = list(user_map.keys()), the options of the first
\* select box.
available_users == {StrId(key) : key \in DOMAIN user_map}

\* The values st.sidebar.selectbox may return: one of the options, None
\* when there is no option.
selectbox(options) == IF options = {} THEN {None} ELSE options

\* The outcomes of np.argsort in a call for this customer; an unknown
\* customer returns before any score is computed.
ArgsortOutcomes(customer_id) ==
    IF Known(customer_id) THEN argsort(Scores(customer_id)) ELSE {<<>>}

\* The value returned when np.argsort gave `order`.
get_twotower_recommendations(customer_id, n, order) ==
    IF ~Known(customer_id) THEN <<>>
    ELSE FilterLoop(TopCandidates(order, n), 1, Len(TopCandidates(order, n)),
                    already_bought_set(customer_id), n, LoopStart).final_recs

\* The button handler, on the values of the two select boxes: the history
\* query, then the recommendation query.
ShowAnalysis ==
    /\ pc = "page"
    /\ \E customer_id \in selectbox(available_users), n \in selectbox(n_recs_options) :
         \E order \in ArgsortOutcomes(customer_id) :
            /\ selected_user_id' = customer_id
            /\ n_recs' = n
            /\ user_history_mids' = UserHistoryMids(customer_id)
            /\ top_indices_candidates' =
                   IF Known(customer_id) THEN TopCandidates(order, n) ELSE <<>>
            /\ recs_mids' = get_twotower_recommendations(customer_id, n, order)
    /\ pc' = "shown"
    /\ UNCHANGED <<disk, error, loaded, cache, tables>>

\* Any interaction (or a reload after st.stop) runs the script again from
\* the top; only the cache survives.
Rerun ==
    /\ pc \in {"page", "shown", "stopped"}
    /\ pc' = "start"
    /\ error' = "none"
    /\ loaded' = FALSE
    /\ user_vecs' = <<>> /\ item_vecs' = <<>>
    /\ user_map' = EmptyDict /\ item_inv_map' = <<>>
    /\ order_cust' = <<>>
    /\ selected_user_id' = NoId /\ n_recs' = 0
    /\ user_history_mids' = <<>> /\ recs_mids' = <<>>
    /\ top_indices_candidates' = <<>>
    /\ UNCHANGED <<disk, cache>>

Next ==
    \/ LoadCached
    \/ LoadUserEmbeddings
    \/ LoadItemEmbeddings
    \/ LoadMaps
    \/ LoadHistory
    \/ LoadProducts
    \/ ShowAnalysis
    \/ Rerun

Spec == Init /\ [][Next]_vars

(***************************************************************************)
(* Properties                                                              *)
(***************************************************************************)
Shown == pc = "shown"
ShownKnown == Shown /\ Known(selected_user_id)

\* The canonical forms of the ids the history query returned.
HistoryIds == {str(user_history_mids[j]) : j \in 1..Len(user_history_mids)}

NoRepeat(s) == \A i \in 1..Len(s) : \A j \in 1..Len(s) : i < j => s[i] # s[j]

Canonical(s) == [j \in 1..Len(s) |-> str(s[j])]

\* The canonical ids of the rows of a window, in window order.
WindowIds(w) == [k \in 1..Len(w) |-> item_inv_map[w[k]]]

FirstN(s, n) == SubSeq(s, 1, Min(n, Len(s)))

Eligible(ids) == SelectSeq(ids, LAMBDA m : m \notin HistoryIds)

\* Catalog rows whose id the customer has not purchased.
EligibleRows == {r \in DOMAIN item_inv_map : item_inv_map[r] \notin HistoryIds}

\* C1: for a known customer and N >= 1 the recommendation query returns at
\* most N ids, and none of them is, in canonical form, an id the history
\* query returns for that customer.
C1_AtMostNNonePurchased ==
    (ShownKnown /\ n_recs >= 1) =>
        /\ Len(recs_mids) <= n_recs
        /\ \A k \in 1..Len(recs_mids) : recs_mids[k] \notin HistoryIds

\* C1 witness: a full answer for a customer queried by a str id whose
\* purchases are logged under the int id, the best-ranked row being one of
\* the purchases.
C1_Witness ==
    /\ ShownKnown
    /\ selected_user_id.kind = "str"
    /\ Len(recs_mids) = n_recs
    /\ top_indices_candidates # <<>>
    /\ item_inv_map[top_indices_candidates[1]] \in HistoryIds
    /\ \E j \in 1..Len(order_cust) :
          /\ order_cust[j].customer_id.kind = "int"
          /\ str(order_cust[j].customer_id) = str(selected_user_id)

\* C2: the returned list never holds the same item id twice, also when two
\* rows of the identifier table carry the same canonical id.
C2_NoDuplicateRecommendations == Shown => NoRepeat(recs_mids)

\* C3 as stated: fewer than N ids are returned only if the whole catalog
\* has fewer than N non-purchased rows; with at least N of them exactly N
\* are returned, with fewer exactly those.
C3_ShortOnlyIfCatalogShort ==
    ShownKnown => Len(recs_mids) = Min(n_recs, Cardinality(EligibleRows))

\* C3 amended: the number of ids returned is the smaller of N and the number
\* of non-purchased rows in the candidate window (the N + 100 best-ranked
\* rows); the window is the whole catalog when the catalog has at most
\* N + 100 rows, and only then does the catalog-wide count decide.
C3_ShortOnlyIfWindowShort ==
    ShownKnown =>
        /\ Len(recs_mids) =
              Min(n_recs, Len(Eligible(WindowIds(top_indices_candidates))))
        /\ Len(item_vecs) <= n_recs + Slack =>
              Len(recs_mids) = Min(n_recs, Cardinality(EligibleRows))

\* C3 witness: the degraded case, a short answer although the catalog
\* holds enough non-purchased rows outside the window.
C3_Witness ==
    /\ ShownKnown
    /\ Len(recs_mids) < n_recs
    /\ Cardinality(EligibleRows) >= n_recs
    /\ Len(item_vecs) > n_recs + Slack

\* The value the loop leaves for a known customer when the window holds no
\* eligible row: no append has run.
FoundNothing == FilterLoop(<<>>, 1, 0, {}, n_recs, LoopStart).final_recs

\* C4: a customer that is not in the index gets a value that carries no
\* item and is distinguishable from the answer of a known customer without
\* eligible items.
C4_UnknownCustomerSignalled ==
    (Shown /\ ~Known(selected_user_id)) =>
        /\ Len(recs_mids) = 0
        /\ recs_mids # FoundNothing

\* C5: a query is served only in a run whose load has completed, with every
\* artifact read; a run in which an artifact failed to load is stopped,
\* binds no table and serves no query.
C5_NoQueryWithoutLoad ==
    /\ pc \in {"page", "shown"} =>
          loaded /\ error = "none" /\ disk.present = Artifacts
    /\ error # "none" =>
          pc = "stopped" /\ ~loaded /\ recs_mids = <<>> /\ n_recs = 0
    /\ n_recs # 0 => loaded

\* C5 witness: a query answered, with recommendations, in a run whose load
\* completed.
C5_Witness ==
    /\ pc = "shown"
    /\ loaded
    /\ cache # <<>>
    /\ recs_mids # <<>>

\* C6: once loading is over, a missing purchase-history artifact has not
\* stopped the run, and a missing embedding or mapping artifact has.
C6_MissingHistoryTolerated ==
    pc \in {"page", "shown", "stopped"} =>
        /\ ~({"user_embeddings", "item_embeddings", "twotower_maps"}
                \subseteq disk.present) =>
              pc = "stopped" /\ error \in Artifacts \ disk.present
        /\ disk.present = Artifacts \ {"user_history"} =>
              pc # "stopped" /\ error = "none"

\* The position in the purchase log of the first row of the selected
\* customer that carries the canonical id m.
FirstSeen(m) ==
    CHOOSE j \in 1..Len(order_cust) :
        /\ str(order_cust[j].customer_id) = str(selected_user_id)
        /\ str(order_cust[j].mid) = m
        /\ \A i \in 1..(j - 1) :
              ~(/\ str(order_cust[i].customer_id) = str(selected_user_id)
                /\ str(order_cust[i].mid) = m)

\* C7: the history query returns the ids of the rows whose customer id has
\* the queried canonical form, no two equal in canonical form, in order of
\* first appearance in the log (empty when there is no such row).
C7_HistoryDistinctInLogOrder ==
    Shown =>
        /\ HistoryIds =
              {str(order_cust[j].mid) : j \in
                  {i \in 1..Len(order_cust) :
                      str(order_cust[i].customer_id) = str(selected_user_id)}}
        /\ NoRepeat(Canonical(user_history_mids))
        /\ \A i \in 1..Len(user_history_mids) : \A j \in 1..Len(user_history_mids) :
              i < j => FirstSeen(str(user_history_mids[i]))
                          < FirstSeen(str(user_history_mids[j]))

\* Scores do not rise along the window w.
NonIncreasing(w, sc) ==
    \A i \in 1..(Len(w) - 1) : sc[w[i] + 1] >= sc[w[i + 1] + 1]

\* Along w the score falls, or stays with the row index rising.
DescendingTiesByRow(w, sc) ==
    \A i \in 1..(Len(w) - 1) :
        \/ sc[w[i] + 1] > sc[w[i + 1] + 1]
        \/ sc[w[i] + 1] = sc[w[i + 1] + 1] /\ w[i] < w[i + 1]

\* No row outside w scores more than the last row of w.
HoldsTheBest(w, sc) ==
    \A r \in 0..(Len(sc) - 1) :
        (\A k \in 1..Len(w) : w[k] # r) => sc[r + 1] <= sc[w[Len(w)] + 1]

\* C8 as stated: the scanned candidates are in descending order of score,
\* rows of equal score in ascending order of row index.
C8_TiesInRowOrder ==
    ShownKnown =>
        DescendingTiesByRow(top_indices_candidates, Scores(selected_user_id))

\* C8 amended: the scanned candidates are the best-scored rows in
\* non-increasing order of score; the order among rows of equal score is
\* whatever the unstable sort left, reversed, and need not follow the row
\* index.
C8_DescendingScore ==
    ShownKnown =>
        /\ NonIncreasing(top_indices_candidates, Scores(selected_user_id))
        /\ HoldsTheBest(top_indices_candidates, Scores(selected_user_id))
        /\ NoRepeat(top_indices_candidates)

\* C8 witness: a window with a strict drop of score and with two rows of
\* equal score, the later row first.
C8_Witness ==
    /\ ShownKnown
    /\ \E i \in 1..(Len(top_indices_candidates) - 1) :
          LET sc == Scores(selected_user_id)
              w == top_indices_candidates
          IN  /\ sc[w[i] + 1] = sc[w[i + 1] + 1]
              /\ w[i] > w[i + 1]
              /\ \E j \in 1..(Len(w) - 1) : sc[w[j] + 1] > sc[w[j + 1] + 1]

\* C9: for a known customer the answer is the first N entries of the
\* candidate window (N + 100 rows, or the whole catalog when smaller)
\* whose id is not purchased, in window order; all of them when there are
\* fewer than N; nothing else.
C9_FirstNEligibleOfWindow ==
    ShownKnown =>
        /\ Len(top_indices_candidates) = Min(Len(item_vecs), n_recs + Slack)
        /\ recs_mids = FirstN(Eligible(WindowIds(top_indices_candidates)), n_recs)

\* C9 witness: the ranking A2, A1, A3, A4, A5, A6, A7, A8 with purchases A1
\* and A2 and N = 5 gives A3, A4, A5, A6, A7: the purchased leaders are
\* skipped, the order kept, the eligible A8 left out.
C9_Witness ==
    /\ ShownKnown
    /\ selected_user_id = ExampleCustomer
    /\ n_recs = 5
    /\ WindowIds(top_indices_candidates) =
          <<<<"A", "2">>, <<"A", "1">>, <<"A", "3">>, <<"A", "4">>, <<"A", "5">>,
            <<"A", "6">>, <<"A", "7">>, <<"A", "8">>>>
    /\ HistoryIds = {<<"A", "1">>, <<"A", "2">>}
    /\ recs_mids = <<<<"A", "3">>, <<"A", "4">>, <<"A", "5">>, <<"A", "6">>, <<"A", "7">>>>

\* The rows of the identifier list ids that carry the canonical id key.
RowsOf(ids, key) == {i \in 0..(Len(ids) - 1) : str(ids[i + 1]) = key}

LastRowOf(ids, key) ==
    CHOOSE i \in RowsOf(ids, key) : \A j \in RowsOf(ids, key) : j <= i

\* C10 as stated: the mapping is bijective for every identifier list,
\* repeated canonical identifiers included: it has one entry per row, and
\* the index looked up for the identifier stored at row i is i.
C10_Bijective ==
    loaded =>
        /\ Cardinality(DOMAIN user_map) = Len(disk.user_ids)
        /\ \A i \in 0..(Len(disk.user_ids) - 1) :
              user_map[str(disk.user_ids[i + 1])] = i

\* C10 amended: user_map holds exactly the canonical identifiers of the
\* list and maps each to the last row that carries it, item_inv_map maps
\* every row to the canonical identifier stored there; the index looked up
\* for the identifier at row i is i exactly when no later row repeats it.
C10_LastOccurrenceWins ==
    loaded =>
        /\ DOMAIN user_map = {str(disk.user_ids[i]) : i \in 1..Len(disk.user_ids)}
        /\ \A key \in DOMAIN user_map : user_map[key] = LastRowOf(disk.user_ids, key)
        /\ \A i \in 0..(Len(disk.user_ids) - 1) :
              user_map[str(disk.user_ids[i + 1])] = i
                 <=> \A j \in (i + 1)..(Len(disk.user_ids) - 1) :
                        str(disk.user_ids[j + 1]) # str(disk.user_ids[i + 1])
        /\ DOMAIN item_inv_map = 0..(Len(disk.item_ids) - 1)
        /\ \A i \in DOMAIN item_inv_map : item_inv_map[i] = str(disk.item_ids[i + 1])

\* C10 witness: an int and a str customer id of the same canonical form in
\* rows 0 and 1, the lookup giving row 1.
C10_Witness ==
    /\ loaded
    /\ Len(disk.user_ids) = 2
    /\ disk.user_ids[1] # disk.user_ids[2]
    /\ str(disk.user_ids[1]) = str(disk.user_ids[2])
    /\ user_map[str(disk.user_ids[1])] = 1

====
